---- MODULE Spec2Model ----
(***************************************************************************)
(* Logistic regression routines of Practicas/Practica3/logistic_reg.py:    *)
(* sigmoid, compute_cost, compute_gradient, their regularized variants,    *)
(* gradient_descent and predict.                                           *)
(*                                                                         *)
(* The code computes in IEEE-754 binary64.  The model computes in a        *)
(* scaled-down binary floating-point format with the same rules (round to  *)
(* nearest, ties to even; gradual underflow; overflow to infinity; NaN for *)
(* invalid operations), so that rounding, saturation and overflow are      *)
(* part of what is checked.  A finite value is an integer number of quanta *)
(* (the smallest positive value); 1.0 is One quanta.                       *)
(***************************************************************************)
EXTENDS Integers, Sequences, FiniteSets, TLC

\* ------------------------------------------------------------ bounds
\* Largest iteration count the callers of gradient_descent pass.
MaxIters == 3
\* Largest number of examples of the datasets passed to the pure functions.
MaxM == 2

\* -------------------------------------------------- floating point
\* Bits of the significand (binary64: 53).
Precision == 4
\* Quanta in 1.0: the quantum is 2^-5 (binary64: 2^-1074).
One == 32
\* Number of binades above the lowest (binary64: 2046).
MaxShift == 6

RECURSIVE Pow2(_)
Pow2(j) == IF j = 0 THEN 1 ELSE 2 * Pow2(j - 1)

\* Largest finite value (binary64: about 1.8e308); here 30.0.
MaxFinite == (Pow2(Precision) - 1) * Pow2(MaxShift)

PInf == MaxFinite + 1
NInf == -PInf
NaN == MaxFinite + 2

Abs(k) == IF k < 0 THEN -k ELSE k
Sign(k) == IF k < 0 THEN -1 ELSE IF k > 0 THEN 1 ELSE 0

IsFinite(x) == x >= -MaxFinite /\ x <= MaxFinite
IsInf(x) == x = PInf \/ x = NInf

\* The finite values of the format: at most Precision significant bits.
Representable(k) ==
    \E j \in 0..MaxShift : Abs(k) % Pow2(j) = 0 /\ Abs(k) \div Pow2(j) < Pow2(Precision)

Floats == {k \in -MaxFinite..MaxFinite : Representable(k)}

\* The shift of the binade that holds the magnitude q (in quanta).
RECURSIVE ShiftFrom(_, _)
ShiftFrom(q, j) == IF q \div Pow2(j) < Pow2(Precision) THEN j ELSE ShiftFrom(q, j + 1)

ShiftOf(q) == ShiftFrom(q, 0)

\* The rational n/d quanta (d > 0) rounded to the nearest value of the
\* format, ties to even, overflowing to an infinity.
Round(n, d) ==
    LET a == Abs(n)
        g == Pow2(ShiftOf(a \div d))
        D == d * g
        f == a \div D
        r == a % D
        up == 2 * r > D \/ (2 * r = D /\ f % 2 = 1)
        mag == (IF up THEN f + 1 ELSE f) * g
    IN  IF mag > MaxFinite THEN (IF n < 0 THEN NInf ELSE PInf)
        ELSE Sign(n) * mag

FromInt(n) == Round(n * One, 1)

\* Every value of the format: the finite ones, the infinities and NaN.
Values == Floats \cup {PInf, NInf, NaN}

Add(a, b) ==
    IF a = NaN \/ b = NaN THEN NaN
    ELSE IF IsInf(a) /\ IsInf(b) THEN (IF a = b THEN a ELSE NaN)
    ELSE IF IsInf(a) THEN a
    ELSE IF IsInf(b) THEN b
    ELSE Round(a + b, 1)

Mul(a, b) ==
    IF a = NaN \/ b = NaN THEN NaN
    ELSE IF IsInf(a) \/ IsInf(b)
         THEN (IF a = 0 \/ b = 0 THEN NaN
               ELSE IF Sign(a) * Sign(b) > 0 THEN PInf ELSE NInf)
    ELSE Round(a * b, One)

Div(a, b) ==
    IF a = NaN \/ b = NaN THEN NaN
    ELSE IF IsInf(a) THEN (IF IsInf(b) THEN NaN
                           ELSE IF Sign(a) * (IF b < 0 THEN -1 ELSE 1) > 0 THEN PInf
                           ELSE NInf)
    ELSE IF IsInf(b) THEN 0
    ELSE IF b = 0 THEN (IF a = 0 THEN NaN ELSE IF a > 0 THEN PInf ELSE NInf)
    ELSE Round(Sign(b) * a * One, Abs(b))

\* The three operations, tabulated once over the values of the format.
AddTable == [a \in Values |-> [b \in Values |-> Add(a, b)]]
MulTable == [a \in Values |-> [b \in Values |-> Mul(a, b)]]
DivTable == [a \in Values |-> [b \in Values |-> Div(a, b)]]

FNeg(a) == IF a = NaN THEN NaN ELSE -a
FAdd(a, b) == AddTable[a][b]
FSub(a, b) == AddTable[a][FNeg(b)]
FMul(a, b) == MulTable[a][b]
FDiv(a, b) == DivTable[a][b]

\* a >= b as the format compares: false when either side is NaN.
FGe(a, b) == a # NaN /\ b # NaN /\ a >= b

\* e^x for each finite x, correctly rounded; x is in quanta, and so is the result.
ExpTable ==
    -960 :> 0 @@ -896 :> 0 @@ -832 :> 0 @@ -768 :> 0 @@ -704 :> 0 @@ -640 :> 0 @@
    -576 :> 0 @@ -512 :> 0 @@ -480 :> 0 @@ -448 :> 0 @@ -416 :> 0 @@ -384 :> 0 @@
    -352 :> 0 @@ -320 :> 0 @@ -288 :> 0 @@ -256 :> 0 @@ -240 :> 0 @@ -224 :> 0 @@
    -208 :> 0 @@ -192 :> 0 @@ -176 :> 0 @@ -160 :> 0 @@ -144 :> 0 @@ -128 :> 1 @@
    -120 :> 1 @@ -112 :> 1 @@ -104 :> 1 @@ -96 :> 2 @@ -88 :> 2 @@ -80 :> 3 @@
    -72 :> 3 @@ -64 :> 4 @@ -60 :> 5 @@ -56 :> 6 @@ -52 :> 6 @@ -48 :> 7 @@
    -44 :> 8 @@ -40 :> 9 @@ -36 :> 10 @@ -32 :> 12 @@ -30 :> 13 @@ -28 :> 13 @@
    -26 :> 14 @@ -24 :> 15 @@ -22 :> 16 @@ -20 :> 18 @@ -18 :> 18 @@ -16 :> 20 @@
    -15 :> 20 @@ -14 :> 20 @@ -13 :> 22 @@ -12 :> 22 @@ -11 :> 22 @@ -10 :> 24 @@
    -9 :> 24 @@ -8 :> 24 @@ -7 :> 26 @@ -6 :> 26 @@ -5 :> 28 @@ -4 :> 28 @@
    -3 :> 30 @@ -2 :> 30 @@ -1 :> 32 @@ 0 :> 32 @@ 1 :> 32 @@ 2 :> 36 @@
    3 :> 36 @@ 4 :> 36 @@ 5 :> 36 @@ 6 :> 40 @@ 7 :> 40 @@ 8 :> 40 @@
    9 :> 44 @@ 10 :> 44 @@ 11 :> 44 @@ 12 :> 48 @@ 13 :> 48 @@ 14 :> 48 @@
    15 :> 52 @@ 16 :> 52 @@ 18 :> 56 @@ 20 :> 60 @@ 22 :> 64 @@ 24 :> 64 @@
    26 :> 72 @@ 28 :> 80 @@ 30 :> 80 @@ 32 :> 88 @@ 36 :> 96 @@ 40 :> 112 @@
    44 :> 128 @@ 48 :> 144 @@ 52 :> 160 @@ 56 :> 192 @@ 60 :> 208 @@ 64 :> 240 @@
    72 :> 288 @@ 80 :> 384 @@ 88 :> 512 @@ 96 :> 640 @@ 104 :> 832 @@ 112 :> PInf @@
    120 :> PInf @@ 128 :> PInf @@ 144 :> PInf @@ 160 :> PInf @@ 176 :> PInf @@ 192 :> PInf @@
    208 :> PInf @@ 224 :> PInf @@ 240 :> PInf @@ 256 :> PInf @@ 288 :> PInf @@ 320 :> PInf @@
    352 :> PInf @@ 384 :> PInf @@ 416 :> PInf @@ 448 :> PInf @@ 480 :> PInf @@ 512 :> PInf @@
    576 :> PInf @@ 640 :> PInf @@ 704 :> PInf @@ 768 :> PInf @@ 832 :> PInf @@ 896 :> PInf @@
    960 :> PInf

\* ln(x) for each finite x > 0, correctly rounded.
LogTable ==
    1 :> -112 @@ 2 :> -88 @@ 3 :> -72 @@ 4 :> -64 @@ 5 :> -60 @@ 6 :> -52 @@
    7 :> -48 @@ 8 :> -44 @@ 9 :> -40 @@ 10 :> -36 @@ 11 :> -36 @@ 12 :> -32 @@
    13 :> -28 @@ 14 :> -26 @@ 15 :> -24 @@ 16 :> -22 @@ 18 :> -18 @@ 20 :> -15 @@
    22 :> -12 @@ 24 :> -9 @@ 26 :> -7 @@ 28 :> -4 @@ 30 :> -2 @@ 32 :> 0 @@
    36 :> 4 @@ 40 :> 7 @@ 44 :> 10 @@ 48 :> 13 @@ 52 :> 16 @@ 56 :> 18 @@
    60 :> 20 @@ 64 :> 22 @@ 72 :> 26 @@ 80 :> 30 @@ 88 :> 32 @@ 96 :> 36 @@
    104 :> 36 @@ 112 :> 40 @@ 120 :> 44 @@ 128 :> 44 @@ 144 :> 48 @@ 160 :> 52 @@
    176 :> 56 @@ 192 :> 56 @@ 208 :> 60 @@ 224 :> 64 @@ 240 :> 64 @@ 256 :> 64 @@
    288 :> 72 @@ 320 :> 72 @@ 352 :> 80 @@ 384 :> 80 @@ 416 :> 80 @@ 448 :> 88 @@
    480 :> 88 @@ 512 :> 88 @@ 576 :> 96 @@ 640 :> 96 @@ 704 :> 96 @@ 768 :> 104 @@
    832 :> 104 @@ 896 :> 104 @@ 960 :> 112

FExp(x) ==
    IF x = NaN THEN NaN
    ELSE IF x = PInf THEN PInf
    ELSE IF x = NInf THEN 0
    ELSE ExpTable[x]

FLog(x) ==
    IF x = NaN THEN NaN
    ELSE IF x = PInf THEN PInf
    ELSE IF x < 0 THEN NaN
    ELSE IF x = 0 THEN NInf
    ELSE LogTable[x]

Half == One \div 2

\* ------------------------------------------------------ array operations
\* A 1-D array is a sequence of values, a 2-D array a sequence of rows.

\* sum of a 1-D array, accumulated in index order
RECURSIVE SumTo(_, _)
SumTo(v, k) == IF k = 0 THEN 0
               ELSE IF k = 1 THEN v[1]
               ELSE FAdd(SumTo(v, k - 1), v[k])

Sum(v) == SumTo(v, Len(v))

\* np.dot of two 1-D arrays
Dot1(u, v) == Sum([j \in 1..Len(u) |-> FMul(u[j], v[j])])

\* np.dot(X, w) for X of shape (m, n) and w of shape (n,): shape (m,)
Dot(X, w) == [r \in 1..Len(X) |-> Dot1(X[r], w)]

\* np.dot(X.T, v) for X of shape (m, n) and v of shape (m,): shape (n,)
DotT(X, v) == [j \in 1..Len(X[1]) |-> Sum([r \in 1..Len(X) |-> FMul(X[r][j], v[r])])]

\* z = np.dot(X, w) + b, the linear score of every example
Score(X, w, b) == LET d == Dot(X, w) IN [r \in 1..Len(X) |-> FAdd(d[r], b)]

\* --------------------------------------------------------------- sigmoid
SigmoidMirrored(z) == FDiv(One, FAdd(One, FExp(z)))

Sigmoid(z) == FDiv(One, FAdd(One, FExp(FNeg(z))))

SigmoidVec(z) == [r \in 1..Len(z) |-> Sigmoid(z[r])]

\* --------------------------------------------------- logistic regression
\* the summand y * log(h) + (1 - y) * log(1 - h) of one example
CrossEntropyTerm(yr, hr) ==
    FAdd(FMul(yr, FLog(hr)), FMul(FSub(One, yr), FLog(FSub(One, hr))))

ComputeCost(X, y, w, b, lambda_) ==
    LET m == Len(y)
        z == Score(X, w, b)
        h == SigmoidVec(z)
        total_cost == FMul(FDiv(FromInt(-1), FromInt(m)),
                           Sum([r \in 1..m |-> CrossEntropyTerm(y[r], h[r])]))
    IN  total_cost

ComputeGradient(X, y, w, b, lambda_) ==
    LET m == Len(y)
        z == Score(X, w, b)
        h == SigmoidVec(z)
        err == [r \in 1..m |-> FSub(h[r], y[r])]
        g == DotT(X, err)
        dj_db == FMul(FDiv(FromInt(1), FromInt(m)), Sum(err))
        dj_dw == [j \in 1..Len(w) |-> FMul(FDiv(FromInt(1), FromInt(m)), g[j])]
    IN  [dj_db |-> dj_db, dj_dw |-> dj_dw]

\* ----------------------------------------- regularized logistic regression
ComputeCostRegWithBias(X, y, w, b, lambda_) ==
    LET m == Len(y)
        y_pred == SigmoidVec(Score(X, w, b))
        cost == FMul(FDiv(FromInt(-1), FromInt(m)),
                     Sum([r \in 1..m |-> CrossEntropyTerm(y[r], y_pred[r])]))
        reg_term == FMul(FDiv(lambda_, FromInt(2 * m)),
                         FAdd(Sum([j \in 1..Len(w) |-> FMul(w[j], w[j])]), FMul(b, b)))
    IN  FAdd(cost, reg_term)

ComputeCostReg(X, y, w, b, lambda_) ==
    LET m == Len(y)
        z == Score(X, w, b)
        y_pred == SigmoidVec(z)
        cost == FMul(FDiv(FromInt(-1), FromInt(m)),
                     Sum([r \in 1..m |-> CrossEntropyTerm(y[r], y_pred[r])]))
        reg_term == FMul(FDiv(lambda_, FromInt(2 * m)),
                         Sum([j \in 1..Len(w) |-> FMul(w[j], w[j])]))
        total_cost == FAdd(cost, reg_term)
    IN  total_cost

ComputeGradientRegHalved(X, y, w, b, lambda_) ==
    LET m == Len(y)
        y_pred == SigmoidVec(Score(X, w, b))
        err == [r \in 1..m |-> FSub(y_pred[r], y[r])]
        g == DotT(X, err)
    IN  [dj_db |-> FMul(FDiv(FromInt(1), FromInt(m)), Sum(err)),
         dj_dw |-> [j \in 1..Len(w) |->
                      FAdd(FMul(FDiv(FromInt(1), FromInt(m)), g[j]),
                           FMul(FDiv(lambda_, FromInt(2 * m)), w[j]))]]

ComputeGradientReg(X, y, w, b, lambda_) ==
    LET m == Len(y)
        z == Score(X, w, b)
        y_pred == SigmoidVec(z)
        err == [r \in 1..m |-> FSub(y_pred[r], y[r])]
        g == DotT(X, err)
        dj_db == FMul(FDiv(FromInt(1), FromInt(m)), Sum(err))
        dj_dw == [j \in 1..Len(w) |->
                    FAdd(FMul(FDiv(FromInt(1), FromInt(m)), g[j]),
                         FMul(FDiv(lambda_, FromInt(m)), w[j]))]
    IN  [dj_db |-> dj_db, dj_dw |-> dj_dw]

\* ---------------------------------------------------------------- predict
\* An ndarray with its shape: w arrives as (n,) or as a column (n, 1).
NdArray(shape, data) == [shape |-> shape, data |-> data]

\* shape of np.dot(X, w) + b for X of shape (m, n): (m,) for a 1-D w,
\* (m, 1) for a column
ScoreShape(m, wshape) == IF Len(wshape) = 1 THEN <<m>> ELSE <<m, 1>>

PredictStrict(X, w, b) ==
    LET m == Len(X)
        h == SigmoidVec(Score(X, w.data, b))
    IN  NdArray(ScoreShape(m, w.shape),
                [r \in 1..m |-> IF FGe(h[r], Half) /\ h[r] # Half THEN 1 ELSE 0])

Predict(X, w, b) ==
    LET m == Len(X)
        p0 == NdArray(<<m, 1>>, [r \in 1..m |-> 0])
        z == Score(X, w.data, b)
        h == SigmoidVec(z)
        p == NdArray(ScoreShape(m, w.shape),
                     [r \in 1..m |-> IF FGe(h[r], Half) THEN 1 ELSE 0])
    IN  p

\* ------------------------------------------------------------------ state
VARIABLES
    mem,        \* the arrays on the heap, by reference: X, y, w_in and the copy
    args,       \* the arguments of the running gradient_descent call
    pc,         \* the line gradient_descent is at ("idle": no call is running)
    w,          \* gradient_descent's local w: a reference into mem
    b,          \* gradient_descent's local b
    J_history,  \* gradient_descent's local J_history
    i,          \* the loop index
    dj_db,      \* the bias gradient of the current iteration
    dj_dw,      \* the weight gradient of the current iteration
    cost,       \* the cost of the current iteration
    calls,      \* every call of cost_function and gradient_function so far
    ret         \* what the last call returned, with the arguments it was given

vars == <<mem, args, pc, w, b, J_history, i, dj_db, dj_dw, cost, calls, ret>>

NoRef == "none"
NoRet == [fn |-> "none"]
NoArgs == [X |-> <<>>, y |-> <<>>, w_in |-> <<>>, b_in |-> 0,
           cost_function |-> "none", gradient_function |-> "none",
           alpha |-> 0, num_iters |-> 0, lambda_ |-> 0]
NoMem == [r \in {"X", "y", "w_in", "w_copy"} |-> <<>>]

\* ----------------------------------------------------------------- inputs
\* Feature rows, weight vectors and the other arguments the callers pass.
Rows(n) == IF n = 1 THEN {<<0>>, <<One>>, <<-One>>}
           ELSE {<<One, One>>, <<One, 2 * One>>, <<One, 0>>}

Weights(n) == IF n = 1 THEN {<<0>>, <<-1>>, <<MaxFinite>>, <<-3 * Half>>}
              ELSE {<<0, 0>>, <<One, -One>>, <<-1, 0>>, <<8, MaxFinite>>}

Biases == {0, -One}
Lambdas == {0, One}
Labels == {0, One}
Features == {1, 2}

\* A 0.1 learning rate, as the format holds it, and a coarse one.
Alphas == {Round(One, 10), One}

\* The training sets gradient_descent is run on.
TrainingSets ==
    {[X |-> <<<<One, One>>, <<One, 2 * One>>, <<One, 0>>>>, y |-> <<0, One, One>>],
     [X |-> <<<<One>>, <<-One>>>>, y |-> <<One, 0>>]}

InitialWeights(n) == IF n = 1 THEN {<<0>>, <<One>>} ELSE {<<0, 0>>, <<One, -One>>}

\* The function pairs passed as cost_function and gradient_function: the two
\* pairs of this file, and a pair of the caller's own ("any").
FunctionPairs == {<<"compute_cost", "compute_gradient">>,
                  <<"compute_cost_reg", "compute_gradient_reg">>,
                  <<"any", "any">>}

\* What a caller's own gradient function and cost function may return.
AnyGradients(n) == {[dj_db |-> 0, dj_dw |-> [j \in 1..n |-> 0]],
                    [dj_db |-> One, dj_dw |-> [j \in 1..n |-> -j * Half]]}
AnyCosts == {One, 2 * One}

\* --------------------------------------------------------- gradient_descent
\* cost_function(X, y, w, b, lambda_): the values it may return
CostValues(f, X, y, wv, bv, lambda_) ==
    IF f = "compute_cost" THEN {ComputeCost(X, y, wv, bv, lambda_)}
    ELSE IF f = "compute_cost_reg" THEN {ComputeCostReg(X, y, wv, bv, lambda_)}
    ELSE AnyCosts

\* gradient_function(X, y, w, b, lambda_): the values it may return
GradientValues(f, X, y, wv, bv, lambda_) ==
    IF f = "compute_gradient" THEN {ComputeGradient(X, y, wv, bv, lambda_)}
    ELSE IF f = "compute_gradient_reg" THEN {ComputeGradientReg(X, y, wv, bv, lambda_)}
    ELSE AnyGradients(Len(wv))

Zeros(n) == [k \in 1..n |-> 0]

\* calls with one more call recorded; the record keeps the calls of the first
\* MaxIters + 1 iterations
Logged(c) == IF Len(calls) < 2 * (MaxIters + 1) THEN Append(calls, c) ELSE calls

\* a call of gradient_descent(X, y, w_in, b_in, cost_function,
\* gradient_function, alpha, num_iters, lambda_) by a caller that owns X, y, w_in
Enter(ts, w_in, b_in, fns, alpha, num_iters, lambda_) ==
    /\ pc = "idle"
    /\ mem' = [NoMem EXCEPT !["X"] = ts.X, !["y"] = ts.y, !["w_in"] = w_in]
    /\ args' = [X |-> ts.X, y |-> ts.y, w_in |-> w_in, b_in |-> b_in,
                cost_function |-> fns[1], gradient_function |-> fns[2],
                alpha |-> alpha, num_iters |-> num_iters, lambda_ |-> lambda_]
    /\ pc' = "setup"
    /\ UNCHANGED <<w, b, J_history, i, dj_db, dj_dw, cost, calls, ret>>

Call ==
    \E ts \in TrainingSets, b_in \in {0, Half}, fns \in FunctionPairs, alpha \in Alphas,
       num_iters \in 0..MaxIters, lambda_ \in {0, One} :
        \E w_in \in InitialWeights(Len(ts.X[1])) :
            Enter(ts, w_in, b_in, fns, alpha, num_iters, lambda_)

\* w = w_in without the copy: w is the caller's array
SetupAliased ==
    /\ pc = "setup"
    /\ w' = "w_in"
    /\ b' = args.b_in
    /\ J_history' = Zeros(args.num_iters)
    /\ i' = 0
    /\ pc' = "for"
    /\ UNCHANGED <<mem, args, dj_db, dj_dw, cost, calls, ret>>

\* lines 165-168: w = w_in.copy(); b = b_in; J_history = np.zeros(num_iters)
Setup ==
    /\ pc = "setup"
    /\ mem' = [mem EXCEPT !["w_copy"] = mem["w_in"]]
    /\ w' = "w_copy"
    /\ b' = args.b_in
    /\ J_history' = Zeros(args.num_iters)
    /\ i' = 0
    /\ pc' = "for"
    /\ UNCHANGED <<args, dj_db, dj_dw, cost, calls, ret>>

\* a loop that stops as soon as the cost went up
ForEarlyStop ==
    /\ pc = "for"
    /\ pc' = IF i < args.num_iters /\ ~(i >= 2 /\ J_history[i] > J_history[i - 1])
             THEN "grad" ELSE "return"
    /\ UNCHANGED <<mem, args, w, b, J_history, i, dj_db, dj_dw, cost, calls, ret>>

\* a loop that runs once more: range(num_iters + 1)
ForOnceMore ==
    /\ pc = "for"
    /\ pc' = IF i < args.num_iters + 1 THEN "grad" ELSE "return"
    /\ IF i >= args.num_iters /\ i < args.num_iters + 1
       THEN J_history' = Append(J_history, 0) ELSE UNCHANGED J_history
    /\ UNCHANGED <<mem, args, w, b, i, dj_db, dj_dw, cost, calls, ret>>

\* line 170: for i in range(num_iters)
For ==
    /\ pc = "for"
    /\ pc' = IF i < args.num_iters THEN "grad" ELSE "return"
    /\ UNCHANGED <<mem, args, w, b, J_history, i, dj_db, dj_dw, cost, calls, ret>>

\* line 171: dj_db, dj_dw = gradient_function(X, y, w, b, lambda_)
Gradient ==
    /\ pc = "grad"
    /\ \E g \in GradientValues(args.gradient_function, mem["X"], mem["y"],
                               mem[w], b, args.lambda_) :
        /\ dj_db' = g.dj_db
        /\ dj_dw' = g.dj_dw
        /\ calls' = Logged([fn |-> "gradient_function", w |-> mem[w], b |-> b, out |-> g])
    /\ pc' = "update_w"
    /\ UNCHANGED <<mem, args, w, b, J_history, i, cost, ret>>

\* line 173: w -= alpha * dj_dw, in place
UpdateW ==
    /\ pc = "update_w"
    /\ mem' = [mem EXCEPT ![w] = [j \in 1..Len(mem[w]) |->
                                    FSub(mem[w][j], FMul(args.alpha, dj_dw[j]))]]
    /\ pc' = "update_b"
    /\ UNCHANGED <<args, w, b, J_history, i, dj_db, dj_dw, cost, calls, ret>>

\* b updated from a gradient taken again, at the already-updated w
UpdateBAfterW ==
    /\ pc = "update_b"
    /\ b' = FSub(b, FMul(args.alpha,
                         (CHOOSE g \in GradientValues(args.gradient_function, mem["X"],
                                                      mem["y"], mem[w], b, args.lambda_) :
                              TRUE).dj_db))
    /\ pc' = "cost"
    /\ UNCHANGED <<mem, args, w, J_history, i, dj_db, dj_dw, cost, calls, ret>>

\* line 174: b -= alpha * dj_db
UpdateB ==
    /\ pc = "update_b"
    /\ b' = FSub(b, FMul(args.alpha, dj_db))
    /\ pc' = "cost"
    /\ UNCHANGED <<mem, args, w, J_history, i, dj_db, dj_dw, cost, calls, ret>>

\* line 176: cost = cost_function(X, y, w, b, lambda_)
Cost ==
    /\ pc = "cost"
    /\ \E c \in CostValues(args.cost_function, mem["X"], mem["y"], mem[w], b,
                           args.lambda_) :
        /\ cost' = c
        /\ calls' = Logged([fn |-> "cost_function", w |-> mem[w], b |-> b, out |-> c])
    /\ pc' = "store"
    /\ UNCHANGED <<mem, args, w, b, J_history, i, dj_db, dj_dw, ret>>

\* line 177: J_history[i] = cost; then the next i
Store ==
    /\ pc = "store"
    /\ J_history' = [J_history EXCEPT ![i + 1] = cost]
    /\ i' = i + 1
    /\ pc' = "for"
    /\ UNCHANGED <<mem, args, w, b, dj_db, dj_dw, cost, calls, ret>>

\* line 179: return w, b, J_history
Return ==
    /\ pc = "return"
    /\ ret' = [fn |-> "gradient_descent", w |-> w, b |-> b, J_history |-> J_history]
    /\ pc' = "returned"
    /\ UNCHANGED <<mem, args, w, b, J_history, i, dj_db, dj_dw, cost, calls>>

Init ==
    /\ mem = NoMem
    /\ args = NoArgs
    /\ pc = "idle"
    /\ w = NoRef
    /\ b = 0
    /\ J_history = <<>>
    /\ i = 0
    /\ dj_db = 0
    /\ dj_dw = <<>>
    /\ cost = 0
    /\ calls = <<>>
    /\ ret = NoRet

Next ==
    \/ Call
    \/ Setup
    \/ For
    \/ Gradient
    \/ UpdateW
    \/ UpdateB
    \/ Cost
    \/ Store
    \/ Return

Spec == Init /\ [][Next]_vars

\* The concrete training run: four examples of two features, zero initial
\* parameters, learning rate 0.1, 1000 iterations of the plain pair.
ToyCall == [X |-> <<<<One, One>>, <<One, 2 * One>>, <<One, 3 * One>>, <<One, 0>>>>,
            y |-> <<0, 0, One, One>>, w_in |-> <<0, 0>>, b_in |-> 0,
            alpha |-> Round(One, 10), num_iters |-> 1000]

CallToy ==
    Enter(ToyCall, ToyCall.w_in, ToyCall.b_in, <<"compute_cost", "compute_gradient">>,
          ToyCall.alpha, ToyCall.num_iters, 0)

NextToy ==
    \/ CallToy
    \/ Setup
    \/ For
    \/ Gradient
    \/ UpdateW
    \/ UpdateB
    \/ Cost
    \/ Store
    \/ Return

SpecToy == Init /\ [][NextToy]_vars

\* gradient_descent run on functions of the caller's own only
CallAny ==
    \E ts \in TrainingSets, num_iters \in 0..MaxIters :
        \E w_in \in InitialWeights(Len(ts.X[1])) :
            Enter(ts, w_in, Half, <<"any", "any">>, One, num_iters, 0)

NextAny ==
    \/ CallAny
    \/ Setup
    \/ For
    \/ Gradient
    \/ UpdateW
    \/ UpdateB
    \/ Cost
    \/ Store
    \/ Return

\* The call and the loop are sequential code: a step that can be taken is taken.
FairSpec == Init /\ [][NextAny]_vars /\ WF_vars(NextAny)

\* ------------------------------------------ the functions, called directly
\* A caller applies one function of the file to arguments of its own; ret
\* holds the arguments and the result.
FnFrame == UNCHANGED <<mem, args, w, b, J_history, i, dj_db, dj_dw, cost, calls>>

\* the datasets with m examples of n features
Matrices(m, n) == [1..m -> Rows(n)]
LabelVectors(m) == [1..m -> Labels]

CallSigmoid ==
    /\ pc = "idle"
    /\ pc' = "called"
    /\ FnFrame
    /\ \E z \in Floats :
        ret' = [fn |-> "sigmoid", z |-> z, out |-> Sigmoid(z)]

CallPredict ==
    /\ pc = "idle"
    /\ pc' = "called"
    /\ FnFrame
    /\ \E m \in 1..MaxM, n \in Features :
        \E X \in Matrices(m, n), wv \in Weights(n), bv \in Biases,
           shape \in {<<n>>, <<n, 1>>} :
            ret' = [fn |-> "predict", X |-> X, w |-> NdArray(shape, wv), b |-> bv,
                     out |-> Predict(X, NdArray(shape, wv), bv)]

CallComputeCost ==
    /\ pc = "idle"
    /\ pc' = "called"
    /\ FnFrame
    /\ \E m \in 1..MaxM, n \in Features :
        \E X \in Matrices(m, n), y \in LabelVectors(m), wv \in Weights(n), bv \in Biases :
            ret' = [fn |-> "compute_cost", X |-> X, y |-> y, w |-> wv, b |-> bv,
                     out |-> ComputeCost(X, y, wv, bv, 0)]

CallComputeGradient ==
    /\ pc = "idle"
    /\ pc' = "called"
    /\ FnFrame
    /\ \E m \in 1..MaxM, n \in Features :
        \E X \in Matrices(m, n), y \in LabelVectors(m), wv \in Weights(n), bv \in Biases :
            ret' = [fn |-> "compute_gradient", X |-> X, y |-> y, w |-> wv, b |-> bv,
                     out |-> ComputeGradient(X, y, wv, bv, 0)]

CallComputeCostReg ==
    /\ pc = "idle"
    /\ pc' = "called"
    /\ FnFrame
    /\ \E m \in 1..MaxM, n \in Features :
        \E X \in Matrices(m, n), y \in LabelVectors(m), wv \in Weights(n), bv \in Biases,
           lambda_ \in Lambdas :
            ret' = [fn |-> "compute_cost_reg", X |-> X, y |-> y, w |-> wv, b |-> bv,
                     lambda_ |-> lambda_,
                     out |-> ComputeCostReg(X, y, wv, bv, lambda_)]

CallComputeGradientReg ==
    /\ pc = "idle"
    /\ pc' = "called"
    /\ FnFrame
    /\ \E m \in 1..MaxM, n \in Features :
        \E X \in Matrices(m, n), y \in LabelVectors(m), wv \in Weights(n), bv \in Biases,
           lambda_ \in Lambdas :
            ret' = [fn |-> "compute_gradient_reg", X |-> X, y |-> y, w |-> wv, b |-> bv,
                     lambda_ |-> lambda_,
                     out |-> ComputeGradientReg(X, y, wv, bv, lambda_)]

NextFn ==
    \/ CallSigmoid
    \/ CallPredict
    \/ CallComputeCost
    \/ CallComputeGradient
    \/ CallComputeCostReg
    \/ CallComputeGradientReg

SpecFn == Init /\ [][NextFn]_vars

\* ================================================================ claims
Returned == pc = "returned"

\* the calls of one of the two functions, in order
CallsOf(f) == SelectSeq(calls, LAMBDA c : c.fn = f)

\* C1: gradient_descent takes exactly num_iters steps whatever the costs do
\* (no convergence check, no early stop), then returns, with a loss history of
\* length num_iters holding one recorded cost per iteration.
C1_ExactlyNumItersThenReturns ==
    /\ [](Returned =>
            /\ i = args.num_iters
            /\ Len(CallsOf("gradient_function")) = args.num_iters
            /\ Len(CallsOf("cost_function")) = args.num_iters
            /\ Len(ret.J_history) = args.num_iters
            /\ \A k \in 1..args.num_iters :
                   ret.J_history[k] = CallsOf("cost_function")[k].out)
    /\ <>Returned

\* a full run in which the cost rose, then fell
C1_Witness ==
    /\ Returned
    /\ args.num_iters = MaxIters
    /\ ret.J_history[1] = One /\ ret.J_history[2] = 2 * One /\ ret.J_history[3] = One

\* C2: iteration k calls gradient_function on the parameters as they stand,
\* updates w and b from that one gradient, then calls cost_function on the
\* updated parameters and stores its result at index k of the loss history;
\* entries stored earlier stay as they are.
C2_IterationOrder ==
    pc # "idle" /\ pc # "called" =>
        \A k \in 1..i :
            LET g == calls[2 * k - 1]
                c == calls[2 * k]
            IN  /\ g.fn = "gradient_function"
                /\ c.fn = "cost_function"
                /\ g.w = (IF k = 1 THEN args.w_in ELSE calls[2 * k - 2].w)
                /\ g.b = (IF k = 1 THEN args.b_in ELSE calls[2 * k - 2].b)
                /\ c.w = [j \in 1..Len(g.w) |->
                            FSub(g.w[j], FMul(args.alpha, g.out.dj_dw[j]))]
                /\ c.b = FSub(g.b, FMul(args.alpha, g.out.dj_db))
                /\ J_history[k] = c.out

\* two iterations of a pair of this file are done, the first with a gradient
\* that moved both w and b
C2_Witness ==
    /\ Returned
    /\ i >= 2
    /\ args.gradient_function = "compute_gradient_reg"
    /\ calls[2].w # calls[1].w
    /\ calls[2].b # calls[1].b

\* C3: with num_iters = 0 gradient_descent returns w equal to w_in and b equal
\* to b_in, calls neither function, and returns an empty loss history.
C3_ZeroIterations ==
    Returned /\ args.num_iters = 0 =>
        /\ mem[ret.w] = args.w_in
        /\ ret.b = args.b_in
        /\ calls = <<>>
        /\ ret.J_history = <<>>

C3_Witness == Returned /\ args.num_iters = 0 /\ args.w_in # Zeros(Len(args.w_in))

\* C10: the caller's w_in, X and y hold after the call what they held before
\* it; the updates go to a copy of w_in, and the returned w is that copy.
C10_CallerArraysUntouched ==
    pc # "idle" /\ pc # "called" =>
        /\ mem["X"] = args.X
        /\ mem["y"] = args.y
        /\ mem["w_in"] = args.w_in
        /\ (Returned => ret.w # "w_in" /\ ret.w = w)

\* a call returned weights that differ from the ones passed in
C10_Witness == Returned /\ mem[ret.w] # args.w_in

NonIncreasing(J) == \A k \in 2..Len(J) : ~(J[k] > J[k - 1])

ToyPrediction == Predict(mem["X"], NdArray(<<Len(mem[ret.w])>>, mem[ret.w]), ret.b)

\* C4 as stated: on the concrete training run the loss history never rises and
\* predict on X with the returned parameters equals y.
C4_AsStated ==
    Returned =>
        /\ NonIncreasing(ret.J_history)
        /\ [r \in 1..Len(args.y) |-> ToyPrediction.data[r] * One] = args.y

\* C4, amended: on that run the loss history never rises (every gradient is
\* zero, the parameters stay 0 and every entry is the same cost), and predict
\* on X with the returned parameters is 1 for all four examples, which is not y.
C4_ToyRun ==
    Returned =>
        /\ NonIncreasing(ret.J_history)
        /\ \A k \in 1..Len(ret.J_history) : ret.J_history[k] = ret.J_history[1]
        /\ mem[ret.w] = <<0, 0>> /\ ret.b = 0
        /\ ToyPrediction.data = <<1, 1, 1, 1>>

C4_Witness == Returned /\ Len(ret.J_history) = ToyCall.num_iters /\ mem["X"] = ToyCall.X

\* the score of example r of a predict call
ScoreOf(r) == Score(ret.X, ret.w.data, ret.b)[r]

\* C5 as stated: predict gives 1 when sigmoid(X[r].w + b) >= 0.5 and 0
\* otherwise, which is to say 1 exactly when the score is >= 0.
C5_AsStated ==
    ret.fn = "predict" =>
        \A r \in 1..Len(ret.X) :
            /\ ret.out.data[r] = (IF FGe(Sigmoid(ScoreOf(r)), Half) THEN 1 ELSE 0)
            /\ ret.out.data[r] = 1 <=> FGe(ScoreOf(r), 0)

\* C5, amended: predict gives 1 when sigmoid(X[r].w + b) >= 0.5 and 0 otherwise;
\* every score >= 0 (a score of exactly 0 too) gives 1, and a negative score
\* gives 0 unless it is so close to 0 that 1 + exp(-score) rounds to 2.
C5_Threshold ==
    ret.fn = "predict" =>
        \A r \in 1..Len(ret.X) :
            /\ ret.out.data[r] = (IF FGe(Sigmoid(ScoreOf(r)), Half) THEN 1 ELSE 0)
            /\ FGe(ScoreOf(r), 0) => ret.out.data[r] = 1
            /\ ~FGe(ScoreOf(r), 0) =>
                  (ret.out.data[r] = 1 <=>
                      FAdd(One, FExp(FNeg(ScoreOf(r)))) = FromInt(2))

\* predict was given an example whose score is exactly 0, and one whose score
\* is negative and classified 1
C5_Witness ==
    /\ ret.fn = "predict"
    /\ \E r \in 1..Len(ret.X) : ScoreOf(r) = 0 /\ ret.out.data[r] = 1
    /\ \E r \in 1..Len(ret.X) : ScoreOf(r) < 0 /\ ret.out.data[r] = 1

\* C6: every element of predict's output is 0 or 1 and the output has shape
\* (m, 1), a column with one row per example.
C6_BinaryColumn ==
    ret.fn = "predict" =>
        /\ \A r \in 1..Len(ret.X) : ret.out.data[r] \in {0, 1}
        /\ ret.out.shape = <<Len(ret.X), 1>>

\* the sum of squared weights of a call, the bias left out
SquaredWeights(wv) == Sum([j \in 1..Len(wv) |-> FMul(wv[j], wv[j])])

\* (lambda / (2m)) * sum of squared weights
RegTerm(r) == FMul(FDiv(r.lambda_, FromInt(2 * Len(r.y))), SquaredWeights(r.w))

\* C7 as stated: compute_cost_reg is compute_cost plus (lambda/(2m)) times the
\* sum of squared weights, and the two agree when lambda = 0.
C7_AsStated ==
    ret.fn = "compute_cost_reg" =>
        /\ ret.out = FAdd(ComputeCost(ret.X, ret.y, ret.w, ret.b, 0), RegTerm(ret))
        /\ ret.lambda_ = 0 => ret.out = ComputeCost(ret.X, ret.y, ret.w, ret.b, 0)

\* C7, amended: compute_cost_reg is compute_cost plus (lambda/(2m)) times the
\* sum of squared weights, the bias not entering; the two agree when
\* lambda = 0 and the sum of squared weights is finite.
C7_CostRegularization ==
    ret.fn = "compute_cost_reg" =>
        /\ ret.out = FAdd(ComputeCost(ret.X, ret.y, ret.w, ret.b, 0), RegTerm(ret))
        /\ ret.lambda_ = 0 /\ IsFinite(SquaredWeights(ret.w)) =>
              ret.out = ComputeCost(ret.X, ret.y, ret.w, ret.b, 0)

\* a regularized cost with a bias and weights that are not 0, and lambda > 0
C7_Witness ==
    /\ ret.fn = "compute_cost_reg"
    /\ ret.lambda_ > 0 /\ ret.b # 0
    /\ IsFinite(ret.out) /\ RegTerm(ret) > 0

\* C8: compute_gradient_reg returns compute_gradient's dj_db, whatever lambda
\* is, and compute_gradient's dj_dw plus (lambda/m) * w; the two agree when
\* lambda = 0.
C8_GradientRegularization ==
    ret.fn = "compute_gradient_reg" =>
        LET plain == ComputeGradient(ret.X, ret.y, ret.w, ret.b, 0)
            m == Len(ret.y)
        IN  /\ ret.out.dj_db = plain.dj_db
            /\ ret.out.dj_dw = [j \in 1..Len(ret.w) |->
                                  FAdd(plain.dj_dw[j],
                                       FMul(FDiv(ret.lambda_, FromInt(m)), ret.w[j]))]
            /\ ret.lambda_ = 0 => ret.out = plain

\* a regularized gradient that differs from the plain one
C8_Witness ==
    /\ ret.fn = "compute_gradient_reg"
    /\ ret.lambda_ > 0
    /\ ret.out.dj_dw # ComputeGradient(ret.X, ret.y, ret.w, ret.b, 0).dj_dw

\* C9 as stated: sigmoid(z) is strictly between 0 and 1, sigmoid(0) = 0.5 and
\* sigmoid(-z) = 1 - sigmoid(z).
C9_AsStated ==
    ret.fn = "sigmoid" =>
        /\ ret.out > 0 /\ ret.out < One
        /\ ret.z = 0 => ret.out = Half
        /\ Sigmoid(FNeg(ret.z)) = FSub(One, ret.out)

\* C9, amended: for finite z, sigmoid(z) is in the closed interval [0, 1],
\* sigmoid(0) = 0.5, and sigmoid(-z) <= 0.5 <= sigmoid(z) for z >= 0.
C9_SigmoidRange ==
    ret.fn = "sigmoid" =>
        /\ ret.out >= 0 /\ ret.out <= One
        /\ ret.z = 0 => ret.out = Half
        /\ ret.z >= 0 => ret.out >= Half /\ Sigmoid(FNeg(ret.z)) <= Half

\* sigmoid of a positive z came out as exactly 1
C9_Witness == ret.fn = "sigmoid" /\ ret.z > 0 /\ ret.out = One
====
